---- MODULE Spec2Model ----
(***************************************************************************)
(* Model of tesla_powerwall.Powerwall (src/tesla_powerwall/__init__.py):   *)
(* one Powerwall object, its pinned version, the cookie held by its        *)
(* transport, and one action per public method.  Each action records the   *)
(* call it made in lastOp: the API requests it issued, the transport       *)
(* outcome and decoded body it got, and what it returned or raised.        *)
(* pinnedBy names the operation that stored the current pin.               *)
(***************************************************************************)
EXTENDS Integers, Sequences, FiniteSets, TLC

VARIABLES pin, pinnedBy, authenticated, lastOp, dtHist

vars == <<pin, pinnedBy, authenticated, lastOp, dtHist>>

(***************************************************************************)
(* Values.  Every Python value the model handles is a record [t, v]: t is  *)
(* the Python type (or enum class) and v the printed value.                *)
(***************************************************************************)
PyNone == [t |-> "None", v |-> ""]
JNull == [t |-> "null", v |-> ""]
JStr(s) == [t |-> "str", v |-> s]
JNum(s) == [t |-> "num", v |-> s]
JBool(s) == [t |-> "bool", v |-> s]
Member(cls, s) == [t |-> cls, v |-> s]

NoErr == [name |-> "", attr |-> "", category |-> ""]
Err(n) == [name |-> n, attr |-> "", category |-> ""]

Return(x) == [kind |-> "return", val |-> x, err |-> NoErr]
Raise(e) == [kind |-> "raise", val |-> PyNone, err |-> e]

(***************************************************************************)
(* packaging.version: strings are parsed character by character.  Chars    *)
(* spells out the characters of each version string the model uses.        *)
(***************************************************************************)
DigitVal ==
  ("0" :> 0) @@ ("1" :> 1) @@ ("2" :> 2) @@ ("3" :> 3) @@ ("4" :> 4) @@
  ("5" :> 5) @@ ("6" :> 6) @@ ("7" :> 7) @@ ("8" :> 8) @@ ("9" :> 9)

Chars ==
  ("1.45.9" :> <<"1", ".", "4", "5", ".", "9">>) @@
  ("1.46.0" :> <<"1", ".", "4", "6", ".", "0">>) @@
  ("1.46" :> <<"1", ".", "4", "6">>) @@
  ("1.100.0" :> <<"1", ".", "1", "0", "0", ".", "0">>) @@
  ("1.46.0rc1" :> <<"1", ".", "4", "6", ".", "0", "r", "c", "1">>) @@
  ("v2.0" :> <<"v", "2", ".", "0">>) @@
  ("not-a-version" :> <<"n", "o", "t", "-", "a", "-", "v", "e", "r", "s", "i", "o", "n">>) @@
  ("1.46." :> <<"1", ".", "4", "6", ".">>)

VersionStrings == DOMAIN Chars

IsDigit(c) == c \in DOMAIN DigitVal

RECURSIVE TakeDigits(_)
TakeDigits(cs) ==
  IF cs = <<>> \/ ~IsDigit(Head(cs)) THEN <<>>
  ELSE <<Head(cs)>> \o TakeDigits(Tail(cs))

RECURSIVE NatOf(_)
NatOf(ds) ==
  IF ds = <<>> THEN 0
  ELSE NatOf(SubSeq(ds, 1, Len(ds) - 1)) * 10 + DigitVal[ds[Len(ds)]]

\* release segment of VERSION_PATTERN: [0-9]+(\.[0-9]+)*
RECURSIVE ParseRelease(_)
ParseRelease(cs) ==
  LET ds == TakeDigits(cs)
      rest == SubSeq(cs, Len(ds) + 1, Len(cs))
  IN IF ds = <<>> THEN [ok |-> FALSE, release |-> <<>>, rest |-> cs]
     ELSE IF Len(rest) >= 2 /\ rest[1] = "." /\ IsDigit(rest[2])
          THEN LET r == ParseRelease(Tail(rest))
               IN [ok |-> TRUE, release |-> <<NatOf(ds)>> \o r.release, rest |-> r.rest]
          ELSE [ok |-> TRUE, release |-> <<NatOf(ds)>>, rest |-> rest]

\* pre-release segment, restricted to the spelling rc[0-9]*
ParsePre(rest) ==
  IF rest = <<>> THEN [ok |-> TRUE, pre |-> <<>>]
  ELSE IF Len(rest) >= 2 /\ rest[1] = "r" /\ rest[2] = "c"
       THEN LET ds == SubSeq(rest, 3, Len(rest))
            IN IF TakeDigits(ds) = ds THEN [ok |-> TRUE, pre |-> <<NatOf(ds)>>]
               ELSE [ok |-> FALSE, pre |-> <<>>]
       ELSE [ok |-> FALSE, pre |-> <<>>]

NonePin == [t |-> "None", s |-> "", release |-> <<>>, pre |-> <<>>]
StrPin(s) == [t |-> "str", s |-> s, release |-> <<>>, pre |-> <<>>]
VersionObj(rel, p) == [t |-> "Version", s |-> "", release |-> rel, pre |-> p]

\* version.parse(s) for a str s: a Version, or InvalidVersion
version_parse(s) ==
  LET cs == Chars[s]
      body == IF cs # <<>> /\ Head(cs) = "v" THEN Tail(cs) ELSE cs
      r == ParseRelease(body)
      p == ParsePre(r.rest)
  IN IF r.ok /\ p.ok THEN [ok |-> TRUE, version |-> VersionObj(r.release, p.pre)]
     ELSE [ok |-> FALSE, version |-> NonePin]

\* Version._key: the release without trailing zeros, then the pre-release
RECURSIVE StripZeros(_)
StripZeros(rel) ==
  IF rel # <<>> /\ rel[Len(rel)] = 0 THEN StripZeros(SubSeq(rel, 1, Len(rel) - 1))
  ELSE rel

\* Python tuple ordering
RECURSIVE TupleLess(_, _)
TupleLess(a, b) ==
  IF b = <<>> THEN FALSE
  ELSE IF a = <<>> THEN TRUE
  ELSE IF Head(a) # Head(b) THEN Head(a) < Head(b)
  ELSE TupleLess(Tail(a), Tail(b))

\* a final release sorts after each of its pre-releases
PreLess(p, q) ==
  IF p = <<>> THEN FALSE
  ELSE IF q = <<>> THEN TRUE
  ELSE p[1] < q[1]

VersionLess(a, b) ==
  LET ka == StripZeros(a.release)
      kb == StripZeros(b.release)
  IN TupleLess(ka, kb) \/ (ka = kb /\ PreLess(a.pre, b.pre))

VersionGE(a, b) == ~VersionLess(a, b)

(***************************************************************************)
(* Collaborators the Powerwall class imports: .helpers, .const,            *)
(* .responses, .api and .error.                                            *)
(***************************************************************************)
MissingAttributeError(attr, category) ==
  [name |-> "MissingAttributeError", attr |-> attr, category |-> category]

\* helpers.assert_attribute(response, attr, url)
assert_attribute(response, attr, category) ==
  IF attr \in DOMAIN response /\ response[attr] # JNull
  THEN Return(response[attr])
  ELSE Raise(MissingAttributeError(attr, category))

\* const: the closed sets of values behind each enumeration
KnownValues ==
  [DeviceType |-> {"hec", "teg"},
   GridStatus |-> {"SystemGridConnected", "SystemIslandedActive"},
   OperationMode |-> {"backup", "self_consumption"}]

\* Enum lookup by value: cls(x)
EnumOf(cls, x) ==
  IF x.t = "str" /\ x.v \in KnownValues[cls] THEN Return(Member(cls, x.v))
  ELSE Raise(Err("UnknownEnumValue"))

\* what the transport can answer to one request
FailOutcomes == {"401", "500", "unreachable"}

Replies(bodies) ==
  {[outcome |-> "200", body |-> b] : b \in bodies} \cup
  {[outcome |-> o, body |-> <<>>] : o \in FailOutcomes}

\* api.API request methods: the decoded body, or the error of the outcome
ApiCall(reply) ==
  IF reply.outcome = "200" THEN Return(PyNone)
  ELSE IF reply.outcome = "401" THEN Raise(Err("AccessDeniedError"))
  ELSE IF reply.outcome = "unreachable" THEN Raise(Err("PowerwallUnreachableError"))
  ELSE Raise(Err("APIError"))

\* responses.PowerwallStatus(response).device_type
PowerwallStatus_device_type(response) ==
  LET a == assert_attribute(response, "device_type", "status")
  IN IF a.kind = "raise" THEN a ELSE EnumOf("DeviceType", a.val)

(***************************************************************************)
(* Response bodies the simulated device can send.                          *)
(***************************************************************************)
WithKey(k, vals) == {<<>>} \cup {(k :> x) : x \in vals}

StatusVersions == {JStr("1.45.9"), JStr("1.46.0"), JStr("not-a-version"), JNull, JNum("1.46")}
StatusDeviceTypes == {JStr("hec"), JStr("teg"), JStr("xyz"), JNull}

StatusBodies ==
  WithKey("version", StatusVersions) \cup WithKey("device_type", StatusDeviceTypes) \cup
  {("version" :> x) @@ ("device_type" :> d) :
     x \in {JStr("1.45.9"), JStr("1.46.0")}, d \in {JStr("hec"), JStr("xyz")}}

DeviceTypeBodies == WithKey("device_type", StatusDeviceTypes)
SoeBodies == WithKey("percentage", {JNum("87.5"), JNum("0"), JNull})
GridStatusBodies ==
  {<<>>} \cup
  {("grid_status" :> g) @@ ("grid_services_active" :> a) :
     g \in {JStr("SystemGridConnected"), JStr("SystemFoo"), JNull},
     a \in {JBool("true"), JNull}} \cup
  WithKey("grid_status", {JStr("SystemIslandedActive")}) \cup
  WithKey("grid_services_active", {JBool("false")})
OperationBodies ==
  {<<>>} \cup
  {("real_mode" :> m) @@ ("backup_reserved_percent" :> b) :
     m \in {JStr("backup"), JStr("turbo"), JNull},
     b \in {JNum("5.5"), JNull}} \cup
  WithKey("real_mode", {JStr("self_consumption")}) \cup
  WithKey("backup_reserved_percent", {JNum("0")})
ConfigBodies == WithKey("vin", {JStr("1118431-00-L--T17J0003327"), JNull})
PowerwallsBodies ==
  WithKey("powerwalls", {JStr("[]"), JStr("[{PackageSerialNumber: SN1}]"), JStr("[{}]"), JNull})
OtherBodies == {<<>>, ("running" :> JBool("true"))}

(***************************************************************************)
(* State.                                                                  *)
(***************************************************************************)
NoRead == [path |-> "", device_type |-> "", kind |-> "", val |-> PyNone, err |-> NoErr]

\* the device-type read a get_device_type call completed, if it did
ReadOf(l) ==
  IF /\ l.op = "get_device_type"
     /\ l.outcome = "200"
     /\ "device_type" \in DOMAIN l.body
     /\ l.body["device_type"].t = "str"
  THEN [path |-> IF l.requests = <<"get_status">> THEN "live" ELSE "legacy",
        device_type |-> l.body["device_type"].v,
        kind |-> l.kind, val |-> l.val, err |-> l.err]
  ELSE NoRead

Done(op, arg, reqs, reply, res, obj) ==
  [op |-> op, arg |-> arg, requests |-> reqs,
   outcome |-> reply.outcome, body |-> reply.body,
   kind |-> res.kind, val |-> res.val, err |-> res.err, obj |-> obj,
   authBefore |-> authenticated,
   afterLogout |-> lastOp.op = "logout"]

NoReply == [outcome |-> "", body |-> <<>>]

\* every call leaves its record in lastOp; dtHist keeps the last device-type
\* read completed before that call
Finish(l) ==
  /\ lastOp' = l
  /\ dtHist' = IF ReadOf(lastOp) # NoRead THEN ReadOf(lastOp) ELSE dtHist

\* Powerwall.__init__ (lines 43-56): the pin_version argument is stored as given
Init ==
  /\ pin \in {NonePin} \cup {StrPin(s) : s \in VersionStrings}
  /\ pinnedBy = IF pin = NonePin THEN "" ELSE "__init__"
  /\ authenticated = FALSE
  /\ dtHist = NoRead
  /\ lastOp = [op |-> "__init__", arg |-> pin.s, requests |-> <<>>,
               outcome |-> "", body |-> <<>>,
               kind |-> "return", val |-> PyNone, err |-> NoErr, obj |-> NonePin,
               authBefore |-> FALSE, afterLogout |-> FALSE]

(***************************************************************************)
(* Operations of Powerwall.                                                *)
(***************************************************************************)
\* a call that changes neither the pin nor the cookie
Call(op, arg, reqs, reply, res) ==
  /\ Finish(Done(op, arg, reqs, reply, res, NonePin))
  /\ UNCHANGED <<pin, pinnedBy, authenticated>>

\* the template of the scalar reads: assert_attribute(self._api.get_x(), attr, category)
Extract(reply, attr, category) ==
  LET c == ApiCall(reply)
  IN IF c.kind = "raise" THEN c ELSE assert_attribute(reply.body, attr, category)

\* cls(value) applied to the outcome of the extraction
ThenEnum(cls, r) == IF r.kind = "raise" THEN r ELSE EnumOf(cls, r.val)

\* a response model built from the body: cls(self._api.get_x())
Wrap(cls, reply) ==
  LET c == ApiCall(reply)
  IN IF c.kind = "raise" THEN c ELSE Return(Member(cls, ""))

\* api.API.login: a 2xx answer sets the auth cookie, any other leaves the jar alone
API_login(reply, auth) ==
  [res |-> ApiCall(reply), auth |-> IF reply.outcome = "200" THEN TRUE ELSE auth]

\* api.API.logout: success and the "not logged in" answer both end the session
API_logout(reply, auth) ==
  IF reply.outcome \in {"200", "401"} THEN [res |-> Return(PyNone), auth |-> FALSE]
  ELSE [res |-> ApiCall(reply), auth |-> auth]

Users == {Member("User", "customer"), Member("User", "installer"), JStr("kiosk")}
LoginBodies == {("email" :> JStr("a@b.c")) @@ ("firstname" :> JStr("A"))}

\* login_as that hands back a LoginResponse whatever the API call did
login_as_result_swallow(user, reply, auth) ==
  [res |-> Return(Member("LoginResponse", "")), auth |-> API_login(reply, auth).auth]

\* lines 58-72
login_as_result(user, reply, auth) ==
  LET r == API_login(reply, auth)
  IN [res |-> IF r.res.kind = "raise" THEN r.res ELSE Return(Member("LoginResponse", "")),
      auth |-> r.auth]

login_as ==
  \E user \in Users, reply \in Replies(LoginBodies) :
    LET r == login_as_result(user, reply, authenticated)
    IN /\ Finish(Done("login_as", user.v, <<"login">>, reply, r.res, NonePin))
       /\ authenticated' = r.auth
       /\ UNCHANGED <<pin, pinnedBy>>

\* lines 74-75
login ==
  \E reply \in Replies(LoginBodies) :
    LET r == login_as_result(Member("User", "customer"), reply, authenticated)
    IN /\ Finish(Done("login", "customer", <<"login">>, reply, r.res, NonePin))
       /\ authenticated' = r.auth
       /\ UNCHANGED <<pin, pinnedBy>>

\* logout that refuses to run without a session
logout_result_strict(reply, auth) ==
  IF ~auth THEN [res |-> Raise(Err("APIError")), auth |-> auth]
  ELSE API_logout(reply, auth)

\* lines 77-78
logout_result(reply, auth) == API_logout(reply, auth)

logout ==
  \E reply \in Replies({<<>>}) :
    LET r == logout_result(reply, authenticated)
    IN /\ Finish(Done("logout", "", <<"logout">>, reply, r.res, NonePin))
       /\ authenticated' = r.auth
       /\ UNCHANGED <<pin, pinnedBy>>

\* lines 80-84
run ==
  \E reply \in Replies({<<>>}) :
    Call("run", "", <<"get_sitemater_run">>, reply, ApiCall(reply))

stop ==
  \E reply \in Replies({<<>>}) :
    Call("stop", "", <<"get_sitemaster_stop">>, reply, ApiCall(reply))

\* get_charge with a default for a missing percentage
get_charge_result_default(reply) ==
  LET r == Extract(reply, "percentage", "soe")
  IN IF r.err.name = "MissingAttributeError" THEN Return(JNum("0")) ELSE r

\* lines 86-87
get_charge_result(reply) == Extract(reply, "percentage", "soe")

get_charge ==
  \E reply \in Replies(SoeBodies) :
    Call("get_charge", "", <<"get_system_status_soe">>, reply, get_charge_result(reply))

\* lines 89-93
get_sitemaster ==
  \E reply \in Replies(OtherBodies) :
    Call("get_sitemaster", "", <<"get_sitemaster">>, reply, Wrap("SiteMaster", reply))

get_meters ==
  \E reply \in Replies(OtherBodies) :
    Call("get_meters", "", <<"get_meters_aggregates">>, reply, Wrap("MetersAggregates", reply))

\* lines 95-101
get_grid_status_result(reply) ==
  ThenEnum("GridStatus", Extract(reply, "grid_status", "grid_status"))

get_grid_status ==
  \E reply \in Replies(GridStatusBodies) :
    Call("get_grid_status", "", <<"get_system_status_grid_status">>, reply,
         get_grid_status_result(reply))

\* lines 103-108
is_grid_services_active_result(reply) ==
  Extract(reply, "grid_services_active", "grid_status")

is_grid_services_active ==
  \E reply \in Replies(GridStatusBodies) :
    Call("is_grid_services_active", "", <<"get_system_status_grid_status">>, reply,
         is_grid_services_active_result(reply))

\* lines 110-118
get_site_info ==
  \E reply \in Replies(OtherBodies) :
    Call("get_site_info", "", <<"get_site_info">>, reply, Wrap("SiteInfo", reply))

set_site_name ==
  \E name \in {"home", ""}, reply \in Replies(OtherBodies) :
    Call("set_site_name", name, <<"post_site_info_site_name">>, reply,
         IF ApiCall(reply).kind = "raise" THEN ApiCall(reply) ELSE Return(Member("dict", "")))

get_status ==
  \E reply \in Replies(StatusBodies) :
    Call("get_status", "", <<"get_status">>, reply, Wrap("PowerwallStatus", reply))

\* version.parse("1.46.0") of line 122
Threshold == version_parse("1.46.0").version

\* Gate with an absent pin sent down the legacy branch
Gate_NoneIsLegacy(p) ==
  IF p.t = "None" THEN "legacy"
  ELSE IF p.t = "str" THEN "TypeError"
  ELSE IF VersionGE(p, Threshold) THEN "live"
  ELSE "legacy"

\* line 122: which branch get_device_type takes; ordering a str against a
\* Version is a TypeError
Gate(p) ==
  IF p.t = "None" THEN "live"
  ELSE IF p.t = "str" THEN "TypeError"
  ELSE IF VersionGE(p, Threshold) THEN "live"
  ELSE "legacy"

\* line 123: self.get_status().device_type
LiveDeviceType(reply) ==
  LET c == ApiCall(reply)
  IN IF c.kind = "raise" THEN c ELSE PowerwallStatus_device_type(reply.body)

\* the legacy branch without the DeviceType(...) lookup
LegacyDeviceType_raw(reply) == Extract(reply, "device_type", "device_type")

\* lines 125-129
LegacyDeviceType(reply) ==
  ThenEnum("DeviceType", Extract(reply, "device_type", "device_type"))

\* lines 120-129
get_device_type ==
  \/ /\ Gate(pin) = "TypeError"
     /\ Call("get_device_type", "", <<>>, NoReply, Raise(Err("TypeError")))
  \/ /\ Gate(pin) = "live"
     /\ \E reply \in Replies(StatusBodies) :
          Call("get_device_type", "", <<"get_status">>, reply, LiveDeviceType(reply))
  \/ /\ Gate(pin) = "legacy"
     /\ \E reply \in Replies(DeviceTypeBodies) :
          Call("get_device_type", "", <<"get_device_type">>, reply, LegacyDeviceType(reply))

\* the decoded elements of each "powerwalls" array the device sends
ListItems ==
  ("[]" :> <<>>) @@
  ("[{PackageSerialNumber: SN1}]" :> <<("PackageSerialNumber" :> JStr("SN1"))>>) @@
  ("[{}]" :> << <<>> >>)

RECURSIVE SerialsOf(_)
SerialsOf(items) ==
  IF items = <<>> THEN Return(Member("list", ""))
  ELSE LET a == assert_attribute(Head(items), "PackageSerialNumber", "")
       IN IF a.kind = "raise" THEN a ELSE SerialsOf(Tail(items))

\* lines 131-138
get_serial_numbers_result(reply) ==
  LET a == Extract(reply, "powerwalls", "powerwalls")
  IN IF a.kind = "raise" THEN a ELSE SerialsOf(ListItems[a.val.v])

get_serial_numbers ==
  \E reply \in Replies(PowerwallsBodies) :
    Call("get_serial_numbers", "", <<"get_powerwalls">>, reply, get_serial_numbers_result(reply))

\* lines 140-144
get_operation_mode_result(reply) ==
  ThenEnum("OperationMode", Extract(reply, "real_mode", "operation"))

get_operation_mode ==
  \E reply \in Replies(OperationBodies) :
    Call("get_operation_mode", "", <<"get_operation">>, reply, get_operation_mode_result(reply))

\* lines 146-149
get_backup_reserved_percentage_result(reply) ==
  Extract(reply, "backup_reserved_percent", "operation")

get_backup_reserved_percentage ==
  \E reply \in Replies(OperationBodies) :
    Call("get_backup_reserved_percentage", "", <<"get_operation">>, reply,
         get_backup_reserved_percentage_result(reply))

\* lines 151-152
get_solars ==
  \E reply \in Replies(OtherBodies) :
    Call("get_solars", "", <<"get_solars">>, reply, Wrap("list", reply))

\* lines 154-155
get_vin_result(reply) == Extract(reply, "vin", "config")

get_vin ==
  \E reply \in Replies(ConfigBodies) :
    Call("get_vin", "", <<"get_config">>, reply, get_vin_result(reply))

\* get_version that also pins what it read
get_version_autopin ==
  \E reply \in Replies(StatusBodies) :
    LET r == Extract(reply, "version", "status")
    IN /\ Finish(Done("get_version", "", <<"get_status">>, reply, r, NonePin))
       /\ pin' = IF r.kind = "return" /\ r.val.t = "str" /\ version_parse(r.val.v).ok
                 THEN version_parse(r.val.v).version ELSE pin
       /\ UNCHANGED <<pinnedBy, authenticated>>

\* lines 157-158
get_version_result(reply) == Extract(reply, "version", "status")

get_version ==
  \E reply \in Replies(StatusBodies) :
    Call("get_version", "", <<"get_status">>, reply, get_version_result(reply))

\* the value a caller sees for a pin
PinValue(p) == [t |-> p.t, v |-> p.s]

\* pin_version that drops the pin before it parses
pin_version_effect_clears(p, x) ==
  IF x.t # "str" THEN [pin |-> NonePin, res |-> Raise(Err("TypeError"))]
  ELSE LET r == version_parse(x.v)
       IN IF r.ok THEN [pin |-> r.version, res |-> Return(PyNone)]
          ELSE [pin |-> NonePin, res |-> Raise(Err("InvalidVersion"))]

\* lines 164-165: version.parse raises before the assignment happens
pin_version_effect(p, x) ==
  IF x.t # "str" THEN [pin |-> p, res |-> Raise(Err("TypeError"))]
  ELSE LET r == version_parse(x.v)
       IN IF r.ok THEN [pin |-> r.version, res |-> Return(PyNone)]
          ELSE [pin |-> p, res |-> Raise(Err("InvalidVersion"))]

pin_version ==
  \E vers \in VersionStrings :
    LET e == pin_version_effect(pin, JStr(vers))
    IN /\ pin' = e.pin
       /\ pinnedBy' = IF e.res.kind = "return" THEN "pin_version" ELSE pinnedBy
       /\ Finish(Done("pin_version", vers, <<>>, NoReply, e.res, NonePin))
       /\ UNCHANGED authenticated

\* detect_and_pin_version that stores the version string as it arrived
detect_effect_raw(p, reply) ==
  LET v == Extract(reply, "version", "status")
  IN IF v.kind = "raise" THEN [pin |-> p, res |-> v, reqs |-> <<"get_status">>]
     ELSE IF v.val.t # "str"
          THEN [pin |-> p, res |-> Raise(Err("TypeError")), reqs |-> <<"get_status">>]
          ELSE [pin |-> StrPin(v.val.v), res |-> Return(PinValue(StrPin(v.val.v))),
                reqs |-> <<"get_status">>]

\* lines 160-162
detect_effect(p, reply) ==
  LET v == get_version_result(reply)
  IN IF v.kind = "raise" THEN [pin |-> p, res |-> v, reqs |-> <<"get_status">>]
     ELSE LET e == pin_version_effect(p, v.val)
          IN IF e.res.kind = "raise" THEN [pin |-> p, res |-> e.res, reqs |-> <<"get_status">>]
             ELSE [pin |-> e.pin, res |-> Return(PinValue(e.pin)), reqs |-> <<"get_status">>]

detect_and_pin_version ==
  \E reply \in Replies(StatusBodies) :
    LET e == detect_effect(pin, reply)
    IN /\ pin' = e.pin
       /\ pinnedBy' = IF e.res.kind = "return" THEN "detect_and_pin_version" ELSE pinnedBy
       /\ Finish(Done("detect_and_pin_version", "", e.reqs, reply, e.res,
                      IF e.res.kind = "return" THEN e.pin ELSE NonePin))
       /\ UNCHANGED authenticated

\* lines 167-168
get_pinned_version ==
  /\ Finish(Done("get_pinned_version", "", <<>>, NoReply, Return(PinValue(pin)), pin))
  /\ UNCHANGED <<pin, pinnedBy, authenticated>>

\* lines 170-171
get_api ==
  Call("get_api", "", <<>>, NoReply, Return(Member("API", "")))

Next ==
  \/ login_as \/ login \/ logout \/ run \/ stop
  \/ get_charge \/ get_sitemaster \/ get_meters
  \/ get_grid_status \/ is_grid_services_active
  \/ get_site_info \/ set_site_name \/ get_status
  \/ get_device_type \/ get_serial_numbers
  \/ get_operation_mode \/ get_backup_reserved_percentage
  \/ get_solars \/ get_vin \/ get_version
  \/ detect_and_pin_version \/ pin_version \/ get_pinned_version \/ get_api

Spec == Init /\ [][Next]_vars

(***************************************************************************)
(* Properties.                                                             *)
(***************************************************************************)
\* major.minor.patch of a version: the release padded with zeros
MajorMinorPatch(v) == [i \in 1..3 |-> IF i <= Len(v.release) THEN v.release[i] ELSE 0]

\* v >= 1.46.0 by major, then minor, then patch; a pre-release of 1.46.0
\* precedes 1.46.0
AtLeast_1_46_0(v) ==
  LET m == MajorMinorPatch(v)
  IN \/ m[1] > 1
     \/ m[1] = 1 /\ m[2] > 46
     \/ m[1] = 1 /\ m[2] = 46 /\ m[3] > 0
     \/ m[1] = 1 /\ m[2] = 46 /\ m[3] = 0 /\ v.pre = <<>>

\* the version a pin denotes, whether it is held parsed or as the string given
Denoted(p) == IF p.t = "str" THEN version_parse(p.s).version ELSE p
DenotesVersion(p) == p.t = "Version" \/ (p.t = "str" /\ version_parse(p.s).ok)

\* C1: with any pinned version P, get_device_type issues exactly one request,
\* the general status request if P >= 1.46.0 and the dedicated device-type
\* request otherwise.
C1_PinnedGateOneRequest ==
  (lastOp.op = "get_device_type" /\ DenotesVersion(pin)) =>
    /\ Len(lastOp.requests) = 1
    /\ lastOp.requests[1] =
         IF AtLeast_1_46_0(Denoted(pin)) THEN "get_status" ELSE "get_device_type"

\* C2 as claimed: with no pin, a status response without device_type makes
\* get_device_type return the device category read from the dedicated endpoint.
C2_NoPinFallsBackToLegacy ==
  (/\ lastOp.op = "get_device_type"
   /\ pin = NonePin
   /\ lastOp.outcome = "200"
   /\ "device_type" \notin DOMAIN lastOp.body) =>
    /\ lastOp.kind = "return"
    /\ lastOp.val.t = "DeviceType"

\* C2 amended: with no pin, get_device_type issues only the general status
\* request, and a status response without device_type makes it fail with
\* MissingAttributeError; the dedicated device-type request is issued only
\* under a parsed pin below 1.46.0.
C2_NoPinTakesLivePath ==
  lastOp.op = "get_device_type" =>
    /\ pin = NonePin =>
         /\ lastOp.requests = <<"get_status">>
         /\ (lastOp.outcome = "200" /\ "device_type" \notin DOMAIN lastOp.body) =>
              /\ lastOp.kind = "raise"
              /\ lastOp.err = MissingAttributeError("device_type", "status")
    /\ lastOp.requests = <<"get_device_type">> =>
         pin.t = "Version" /\ ~AtLeast_1_46_0(pin)

C2_Witness ==
  /\ lastOp.op = "get_device_type"
  /\ pin = NonePin
  /\ lastOp.outcome = "200"
  /\ lastOp.body = ("version" :> JStr("1.45.9"))
  /\ lastOp.err.name = "MissingAttributeError"

\* C3: in every reachable state the pinned version is absent or a parsed
\* version, whether it came from the constructor or from pin_version.
C3_PinAbsentOrParsed == pin.t \in {"None", "Version"}

MalformedStrings == {"not-a-version", "1.46."}

\* C4: pin_version with a malformed string raises InvalidVersion and leaves
\* the pin as it was.
C4_MalformedPinRejected ==
  [][(lastOp'.op = "pin_version" /\ lastOp'.arg \in MalformedStrings) =>
       /\ lastOp'.kind = "raise"
       /\ lastOp'.err.name = "InvalidVersion"
       /\ pin' = pin
       /\ pinnedBy' = pinnedBy]_vars

C4_Witness ==
  /\ lastOp.op = "pin_version"
  /\ lastOp.arg = "not-a-version"
  /\ lastOp.err.name = "InvalidVersion"
  /\ pin.t = "Version"

\* C5: the pin changes only in pin_version and detect_and_pin_version.
C5_PinChangesOnlyWhenPinning ==
  [][pin' # pin => lastOp'.op \in {"pin_version", "detect_and_pin_version"}]_vars

C5_Witness ==
  /\ lastOp.op = "get_version"
  /\ lastOp.val = JStr("1.45.9")
  /\ pin = NonePin

\* the parsed form of the version strings a status response carries
ParsedForm ==
  ("1.45.9" :> VersionObj(<<1, 45, 9>>, <<>>)) @@
  ("1.46.0" :> VersionObj(<<1, 46, 0>>, <<>>))

\* C6: a successful detect_and_pin_version issues one status request and pins
\* the parsed version of that response; get_pinned_version then returns it, and
\* get_device_type is gated by it with a single request.
C6_DetectPinsOnce ==
  /\ (lastOp.op = "detect_and_pin_version" /\ lastOp.kind = "return") =>
       /\ lastOp.requests = <<"get_status">>
       /\ lastOp.body["version"].t = "str"
       /\ pin = ParsedForm[lastOp.body["version"].v]
       /\ pinnedBy = "detect_and_pin_version"
  /\ pinnedBy = "detect_and_pin_version" =>
       /\ pin.t = "Version"
       /\ lastOp.op = "get_pinned_version" => lastOp.obj = pin
       /\ lastOp.op = "get_device_type" =>
            lastOp.requests =
              IF AtLeast_1_46_0(pin) THEN <<"get_status">> ELSE <<"get_device_type">>

C6_Witness ==
  /\ pinnedBy = "detect_and_pin_version"
  /\ pin = ParsedForm["1.45.9"]
  /\ lastOp.op = "get_device_type"
  /\ lastOp.requests = <<"get_device_type">>
  /\ lastOp.val = Member("DeviceType", "teg")

\* the field and the category label each scalar read asks for
ScalarField ==
  [get_charge |-> [attr |-> "percentage", category |-> "soe", request |-> "get_system_status_soe"],
   get_grid_status |-> [attr |-> "grid_status", category |-> "grid_status", request |-> "get_system_status_grid_status"],
   is_grid_services_active |-> [attr |-> "grid_services_active", category |-> "grid_status", request |-> "get_system_status_grid_status"],
   get_operation_mode |-> [attr |-> "real_mode", category |-> "operation", request |-> "get_operation"],
   get_backup_reserved_percentage |-> [attr |-> "backup_reserved_percent", category |-> "operation", request |-> "get_operation"],
   get_vin |-> [attr |-> "vin", category |-> "config", request |-> "get_config"],
   get_version |-> [attr |-> "version", category |-> "status", request |-> "get_status"]]

ScalarOps == DOMAIN ScalarField

\* the scalar reads that hand the value to an enumeration
EnumClassOf == [get_grid_status |-> "GridStatus", get_operation_mode |-> "OperationMode"]

Present(body, attr) == attr \in DOMAIN body /\ body[attr] # JNull

\* one request, and a missing or null field is MissingAttributeError(field, category)
ScalarMissingRule(l) ==
  LET f == ScalarField[l.op]
  IN /\ l.requests = <<f.request>>
     /\ (l.outcome = "200" /\ ~Present(l.body, f.attr)) =>
          /\ l.kind = "raise"
          /\ l.err = MissingAttributeError(f.attr, f.category)

\* C7 as claimed: every scalar read issues one request and returns the field's
\* value unmodified when it is present and non-null, and raises
\* MissingAttributeError(field, category) otherwise.
C7_ScalarUnmodified ==
  lastOp.op \in ScalarOps =>
    /\ ScalarMissingRule(lastOp)
    /\ (lastOp.outcome = "200" /\ Present(lastOp.body, ScalarField[lastOp.op].attr)) =>
         /\ lastOp.kind = "return"
         /\ lastOp.val = lastOp.body[ScalarField[lastOp.op].attr]

\* C7 amended: get_charge, is_grid_services_active, get_backup_reserved_percentage,
\* get_vin and get_version return the present, non-null field unmodified;
\* get_grid_status and get_operation_mode return the member of their enumeration
\* that has the field's value and raise an unknown-value error when there is
\* none; all seven issue one request and raise MissingAttributeError(field,
\* category) when the field is absent or null.
C7_ScalarOrEnumMember ==
  lastOp.op \in ScalarOps =>
    LET f == ScalarField[lastOp.op]
    IN /\ ScalarMissingRule(lastOp)
       /\ (lastOp.outcome = "200" /\ Present(lastOp.body, f.attr)) =>
            IF lastOp.op \notin DOMAIN EnumClassOf
            THEN lastOp.kind = "return" /\ lastOp.val = lastOp.body[f.attr]
            ELSE IF lastOp.body[f.attr].v \in KnownValues[EnumClassOf[lastOp.op]]
                 THEN /\ lastOp.kind = "return"
                      /\ lastOp.val = Member(EnumClassOf[lastOp.op], lastOp.body[f.attr].v)
                 ELSE /\ lastOp.kind = "raise"
                      /\ lastOp.err.name = "UnknownEnumValue"

C7_Witness ==
  /\ lastOp.op = "get_operation_mode"
  /\ lastOp.body = ("real_mode" :> JStr("self_consumption"))
  /\ lastOp.val = Member("OperationMode", "self_consumption")

C9_RejectedLogin ==
  (lastOp.op \in {"login", "login_as"} /\ lastOp.outcome = "401") =>
    /\ lastOp.kind = "raise"
    /\ lastOp.err.name = "AccessDeniedError"
    /\ lastOp.val = PyNone
    /\ authenticated = lastOp.authBefore

C9_Witness ==
  /\ lastOp.op = "login"
  /\ lastOp.outcome = "401"
  /\ lastOp.err.name = "AccessDeniedError"
  /\ ~lastOp.authBefore
  /\ ~authenticated

\* C10: for one device_type string, get_device_type gives the same result on
\* the live and on the legacy path: the DeviceType member with that value, or
\* an unknown-value error when the string is outside the known set.
C10_SameResultOnBothPaths ==
  LET r == ReadOf(lastOp)
  IN r # NoRead =>
       /\ IF r.device_type \in KnownValues["DeviceType"]
          THEN r.kind = "return" /\ r.val = Member("DeviceType", r.device_type)
          ELSE r.kind = "raise" /\ r.err.name = "UnknownEnumValue"
       /\ (dtHist.path # r.path /\ dtHist.device_type = r.device_type) =>
            /\ dtHist.kind = r.kind
            /\ dtHist.val = r.val
            /\ dtHist.err = r.err

C10_Witness ==
  /\ dtHist.path = "live"
  /\ ReadOf(lastOp).path = "legacy"
  /\ dtHist.device_type = ReadOf(lastOp).device_type
  /\ dtHist.val = Member("DeviceType", "hec")

====
